---- MODULE Spec2Model ----
(***************************************************************************)
(* A model of the MoMents app (app.py): the Slack reminder client, the     *)
(* reminder -> calendar-event normalisation, and the Status and Calendar   *)
(* pages as render cycles over the Streamlit session.                      *)
(*                                                                         *)
(* One action is one run of the script (one render cycle): the widget      *)
(* interaction that triggered it, then main() rendering the current page.  *)
(* The app is taken as installed from its requirements: WebClient,         *)
(* calendar and st_autorefresh import successfully.  The local time zone   *)
(* is UTC.  Python values of mixed type (None, int, str) are records       *)
(* [t, n, s] so that they can be compared.                                 *)
(*                                                                         *)
(* Two more parts stand on their own: the standalone sync utility          *)
(* (sync_slack_reminders.py), one run of its main(), and the notes         *)
(* repository (_safe_filename, save_summary_to_repository).                *)
(***************************************************************************)
EXTENDS Integers, Sequences, FiniteSets, TLC

VARIABLES
    secrets_token,      \* st.secrets["SLACK_USER_TOKEN"], "" when unset
    env_token,          \* os.environ["SLACK_USER_TOKEN"], "" when unset
    remote,             \* the reminders held by Slack (the reminders.list response)
    page,               \* st.session_state["page"]
    slack_token,        \* st.session_state["slack_token"]: [has, val]
    slack_events,       \* st.session_state["slack_events"]: [has, list]
    slack_auto_refresh, \* st.session_state["slack_auto_refresh"] (checkbox)
    cal_token_input,    \* the Calendar page's text_input widget: [has, val]
    status_slack_token, \* st.session_state["status_slack_token"]: [has, val]
    status_done,        \* the ids rid with st.session_state["status_done_<rid>"] true
    rerun_requested,    \* st.rerun() was called: the script runs again at once
    view,               \* what the last render cycle did and put on the screen
    completed_ok,       \* ids whose reminders.complete call succeeded
    nz_in,              \* normalisation alone and sync utility: the reminders.list response
    nz_out,             \* normalisation alone: what the functions returned for nz_in
    events_file,        \* sync utility: reminders.json, [has, list]
    proc,               \* sync utility: what one run of main() did
    repository,         \* the files of REPO_DIR: name -> content
    clock,              \* datetime.now(), in seconds
    saves               \* the calls of save_summary_to_repository, in order

vars == <<secrets_token, env_token, remote, page, slack_token, slack_events,
          slack_auto_refresh, cal_token_input, status_slack_token, status_done,
          rerun_requested, view, completed_ok, nz_in, nz_out,
          events_file, proc, repository, clock, saves>>

\* The state of the sync utility and of the notes repository, which the
\* pages of the app leave alone.
utilVars == <<events_file, proc, repository, clock, saves>>

(***************************************************************************)
(* Bounds.                                                                 *)
(***************************************************************************)
\* The longest reminders.list response of the session model.
MaxReminders == 2
\* The longest reminders.list response given to the normalisation alone.
NormMaxLen == 2
\* The most calls of save_summary_to_repository in a run.
MaxSaves == 2
\* The last second of the clock.
MaxClock == 1

(***************************************************************************)
(* Python values.                                                          *)
(***************************************************************************)
PyNone == [t |-> "none", n |-> 0, s |-> ""]
PyInt(k) == [t |-> "int", n |-> k, s |-> ""]
PyStr(x) == [t |-> "str", n |-> 0, s |-> x]

\* bool(v): None, 0 and "" are falsy.
Truthy(v) ==
    CASE v.t = "none" -> FALSE
      [] v.t = "int" -> v.n # 0
      [] v.t = "str" -> v.s # ""

\* isinstance(v, int)
IsInt(v) == v.t = "int"

\* isinstance(v, str)
IsStr(v) == v.t = "str"

Digits == <<"0", "1", "2", "3", "4", "5", "6", "7", "8", "9">>

RECURSIVE IntToStr(_)
\* str(k) for an integer k >= 0
IntToStr(k) ==
    IF k < 10 THEN Digits[k + 1]
    ELSE IntToStr(k \div 10) \o Digits[(k % 10) + 1]

\* The two-digit field of a time of day.
TwoDigits(k) == Digits[(k \div 10) + 1] \o Digits[(k % 10) + 1]

\* str(v)
PyStrOf(v) ==
    CASE v.t = "none" -> "None"
      [] v.t = "int" -> IntToStr(v.n)
      [] v.t = "str" -> v.s

\* v or d
PyOr(v, d) == IF Truthy(v) THEN v ELSE d

\* a or b, for strings
StrOr(a, b) == IF a # "" THEN a ELSE b

Range(f) == {f[i] : i \in DOMAIN f}

(***************************************************************************)
(* Tokens.                                                                 *)
(***************************************************************************)
\* _get_slack_user_token reading the environment before the secrets.
GetSlackUserTokenEnvFirst == IF env_token # "" THEN env_token ELSE secrets_token

\* _get_slack_user_token(): secrets, then the environment; "" stands for None.
GetSlackUserToken == IF secrets_token # "" THEN secrets_token ELSE env_token

\* datetime.fromtimestamp(ts, tz=utc).astimezone().isoformat(), for a time of
\* the first day of the epoch.
TsToIsoLocal(ts) ==
    "1970-01-01T" \o TwoDigits(ts \div 3600) \o ":" \o TwoDigits((ts % 3600) \div 60)
        \o ":" \o TwoDigits(ts % 60) \o "+00:00"

(***************************************************************************)
(* Reminder client.  out is what the call to Slack does: "ok", "api" (a  *)
(* SlackApiError) or "exc" (any other exception).                          *)
(***************************************************************************)
Outcomes == {"ok", "api", "exc"}

NoErr == ""

IsDict(r) == r.isdict

\* _fetch_slack_reminders(token): <<reminders, err>>
FetchSlackReminders(resp, out) ==
    CASE out = "ok" -> <<SelectSeq(resp, IsDict), NoErr>>
      [] out = "api" -> <<<<>>, "Slack API error: invalid_auth">>
      [] out = "exc" -> <<<<>>, "Failed to fetch Slack reminders: timeout">>

\* EventOf without the placeholder for a blank text.
EventOfNoPlaceholder(r) ==
    [id |-> r.id,
     title |-> PyStrOf(r.text),
     start |-> TsToIsoLocal(r.time.n),
     allDay |-> FALSE]

\* The calendar event of one reminder.
EventOf(r) ==
    [id |-> r.id,
     title |-> PyStrOf(PyOr(r.text, PyStr("Reminder"))),
     start |-> TsToIsoLocal(r.time.n),
     allDay |-> FALSE]

RECURSIVE EventsLoopKeepCompleted(_, _)
\* EventsLoop without the skip of completed reminders.
EventsLoopKeepCompleted(rs, events) ==
    IF rs = <<>> THEN events
    ELSE LET r == Head(rs) IN
         IF ~IsInt(r.time) THEN EventsLoopKeepCompleted(Tail(rs), events)
         ELSE EventsLoopKeepCompleted(Tail(rs), Append(events, EventOf(r)))

RECURSIVE EventsLoop(_, _)
\* The loop of _fetch_slack_reminders_as_events over the reminders left.
EventsLoop(rs, events) ==
    IF rs = <<>> THEN events
    ELSE LET r == Head(rs) IN
         IF ~IsInt(r.time) THEN EventsLoop(Tail(rs), events)
         ELSE IF Truthy(r.complete_ts) THEN EventsLoop(Tail(rs), events)
         ELSE EventsLoop(Tail(rs), Append(events, EventOf(r)))

\* _fetch_slack_reminders_as_events(token): <<events, err>>
FetchSlackRemindersAsEvents(resp, out) ==
    LET got == FetchSlackReminders(resp, out) IN
    IF got[2] # NoErr THEN <<<<>>, got[2]>>
    ELSE <<EventsLoop(got[1], <<>>), NoErr>>

\* _complete_slack_reminder(token, rid): <<ok, err>>
CompleteSlackReminder(out) ==
    CASE out = "ok" -> <<TRUE, NoErr>>
      [] out = "api" -> <<FALSE, "Slack API error: missing_scope">>
      [] out = "exc" -> <<FALSE, "Failed to complete reminder: timeout">>

\* What reminders.complete does to Slack's reminders: on success the reminder
\* gets a completion timestamp; a failed call changes nothing.
RemoteAfterComplete(rem, rid, out) ==
    IF out = "ok"
    THEN [i \in DOMAIN rem |->
            IF rem[i].id = PyStr(rid) THEN [rem[i] EXCEPT !.complete_ts = PyInt(1)]
            ELSE rem[i]]
    ELSE rem

(***************************************************************************)
(* The session and what a render cycle shows.                              *)
(***************************************************************************)
Pages == {"home", "status", "calendar"}

\* The tokens a user types into a token field ("" clears the field).
TypedTokens == {"", "xoxp-typed"}

Absent == [has |-> FALSE, val |-> ""]
Present(v) == [has |-> TRUE, val |-> v]

NoList == [has |-> FALSE, list |-> <<>>]
ListOf(l) == [has |-> TRUE, list |-> l]

Msg(kind, text) == [kind |-> kind, text |-> text]
Call(op, site, arg, out) == [op |-> op, site |-> site, arg |-> arg, out |-> out]

\* A render cycle's record: the page rendered, the interaction that started
\* the cycle, the calls made to Slack in order, the messages shown in order,
\* the events handed to calendar(), and the Status page's lists.
\* entered is the token of the Status page's field of the last Status cycle,
\* kept while the Home page is shown.
BlankView ==
    [page |-> "home", act |-> "start", auto |-> FALSE, token |-> "",
     cache_before |-> NoList, calls |-> <<>>, msgs |-> <<>>,
     calendar_called |-> FALSE, events |-> <<>>, branch |-> "",
     todo |-> <<>>, completed |-> <<>>, selected |-> <<>>, marked |-> FALSE,
     failed |-> {}, prev_failed |-> {}, cancelled |-> FALSE,
     entered |-> ""]

\* Whether auto-refresh has been on earlier and is off in this cycle, with no
\* Sync pressed and no cycle with auto-refresh on since: the periodic re-fetch
\* was cancelled, by unticking the checkbox or by leaving the Calendar page.
Cancelled(auto, act) ==
    IF auto \/ act = "sync" THEN FALSE ELSE view.cancelled \/ view.auto

\* The prompts, without their markdown back quotes.
PromptCalendar == "Add SLACK_USER_TOKEN (or paste a token on the left) to load reminders."
PromptStatus == "Add SLACK_USER_TOKEN (or paste a token above) to load your reminders."
SyncNoToken == "Set SLACK_USER_TOKEN (or paste a token) before syncing."

(***************************************************************************)
(* render_calendar.                                                        *)
(***************************************************************************)
\* CalendarBranch asking for the token before the cache.
CalendarBranchFetchFirst(auto, token, cache) ==
    CASE token # "" -> IF auto THEN "auto" ELSE "first"
      [] token = "" /\ cache.has -> "cached"
      [] OTHER -> "none"

\* CalendarBranch fetching whenever there is no cache, token or not.
CalendarBranchNoTokenCheck(auto, token, cache) ==
    CASE auto /\ token # "" -> "auto"
      [] ~(auto /\ token # "") /\ cache.has -> "cached"
      [] OTHER -> "first"

\* CalendarBranch taking the refresh branch whatever the checkbox says.
CalendarBranchAutoAlways(auto, token, cache) ==
    CASE token # "" -> "auto"
      [] token = "" /\ cache.has -> "cached"
      [] OTHER -> "none"

\* The branch of the right column that chooses the events.
CalendarBranch(auto, token, cache) ==
    CASE auto /\ token # "" -> "auto"
      [] ~(auto /\ token # "") /\ cache.has -> "cached"
      [] ~(auto /\ token # "") /\ ~cache.has /\ token # "" -> "first"
      [] OTHER -> "none"

\* CalendarSyncButton emptying the cache when its fetch fails.
CalendarSyncButtonStoreFailure(pressed, token, cache, o1) ==
    IF ~pressed THEN <<cache, <<>>, <<>>>>
    ELSE IF token = "" THEN <<cache, <<Msg("error", SyncNoToken)>>, <<>>>>
    ELSE LET got == FetchSlackRemindersAsEvents(remote, o1) IN
         IF got[2] # NoErr
         THEN <<ListOf(<<>>), <<Msg("error", got[2])>>, <<Call("list", "sync", token, o1)>>>>
         ELSE <<ListOf(got[1]),
                <<Msg("success", "Loaded " \o IntToStr(Len(got[1])) \o " reminder(s) from Slack.")>>,
                <<Call("list", "sync", token, o1)>>>>

\* The Sync from Slack button of the left column: <<cache, msgs, calls>>.
CalendarSyncButton(pressed, token, cache, o1) ==
    IF ~pressed THEN <<cache, <<>>, <<>>>>
    ELSE IF token = "" THEN <<cache, <<Msg("error", SyncNoToken)>>, <<>>>>
    ELSE LET got == FetchSlackRemindersAsEvents(remote, o1) IN
         IF got[2] # NoErr
         THEN <<cache, <<Msg("error", got[2])>>, <<Call("list", "sync", token, o1)>>>>
         ELSE <<ListOf(got[1]),
                <<Msg("success", "Loaded " \o IntToStr(Len(got[1])) \o " reminder(s) from Slack.")>>,
                <<Call("list", "sync", token, o1)>>>>

\* CalendarDisplay storing the empty list of a failed fetch in the session.
CalendarDisplayStoreFailure(auto, token, cache, o2) ==
    LET branch == CalendarBranch(auto, token, cache)
        got == FetchSlackRemindersAsEvents(remote, o2)
    IN
    CASE branch \in {"auto", "first"} ->
            IF got[2] # NoErr
            THEN <<ListOf(<<>>), <<>>, <<Msg("warning", got[2])>>, <<Call("list", "display", token, o2)>>>>
            ELSE <<ListOf(got[1]), got[1], <<>>, <<Call("list", "display", token, o2)>>>>
      [] branch = "cached" -> <<cache, cache.list, <<>>, <<>>>>
      [] OTHER -> <<cache, <<>>, <<>>, <<>>>>

\* CalendarDisplay showing the cached events when the refresh fails.
CalendarDisplayKeepStale(auto, token, cache, o2) ==
    LET branch == CalendarBranch(auto, token, cache)
        got == FetchSlackRemindersAsEvents(remote, o2)
    IN
    CASE branch \in {"auto", "first"} ->
            IF got[2] # NoErr
            THEN <<cache, cache.list, <<Msg("warning", got[2])>>, <<Call("list", "display", token, o2)>>>>
            ELSE <<ListOf(got[1]), got[1], <<>>, <<Call("list", "display", token, o2)>>>>
      [] branch = "cached" -> <<cache, cache.list, <<>>, <<>>>>
      [] OTHER -> <<cache, <<>>, <<>>, <<>>>>

\* The choice of events of the right column: <<cache, events, msgs, calls>>.
CalendarDisplay(auto, token, cache, o2) ==
    LET branch == CalendarBranch(auto, token, cache)
        got == FetchSlackRemindersAsEvents(remote, o2)
    IN
    CASE branch \in {"auto", "first"} ->
            IF got[2] # NoErr
            THEN <<cache, <<>>, <<Msg("warning", got[2])>>, <<Call("list", "display", token, o2)>>>>
            ELSE <<ListOf(got[1]), got[1], <<>>, <<Call("list", "display", token, o2)>>>>
      [] branch = "cached" -> <<cache, cache.list, <<>>, <<>>>>
      [] OTHER -> <<cache, <<>>, <<>>, <<>>>>

\* One run of the script on the Calendar page.  act is the interaction that
\* started it: "nav", "rerun", "type" (typed is the new field content),
\* "toggle" (the auto-refresh checkbox) or "sync" (the button).
RenderCalendar(act, typed, o1, o2) ==
    LET widget == IF act = "type" THEN Present(typed) ELSE cal_token_input
        token == IF widget.has THEN widget.val ELSE GetSlackUserToken
        auto == IF act = "toggle" THEN ~slack_auto_refresh ELSE slack_auto_refresh
        left == CalendarSyncButton(act = "sync", token, slack_events, o1)
        token2 == StrOr(token, GetSlackUserToken)
        right == CalendarDisplay(auto, token2, left[1], o2)
        prompt == IF token2 = "" /\ right[2] = <<>>
                  THEN <<Msg("info", PromptCalendar)>> ELSE <<>>
    IN
    \* A call that is not made has no outcome to choose.
    /\ left[3] = <<>> => o1 = "ok"
    /\ right[4] = <<>> => o2 = "ok"
    /\ page' = "calendar"
    /\ cal_token_input' = widget
    /\ slack_token' = Present(token)
    /\ slack_auto_refresh' = auto
    /\ slack_events' = right[1]
    \* Streamlit drops the state of the widgets a run does not render.
    /\ status_slack_token' = Absent
    /\ status_done' = {}
    /\ rerun_requested' = FALSE
    /\ view' = [BlankView EXCEPT
                    !.page = "calendar", !.act = act, !.auto = auto, !.token = token2,
                    !.cache_before = slack_events,
                    !.branch = CalendarBranch(auto, token2, left[1]),
                    !.calls = left[3] \o right[4],
                    !.msgs = left[2] \o right[3] \o prompt,
                    !.calendar_called = TRUE, !.events = right[2],
                    !.prev_failed = view.failed,
                    !.cancelled = Cancelled(auto, act)]
    /\ UNCHANGED <<secrets_token, env_token, remote, completed_ok, nz_in, nz_out, utilVars>>

(***************************************************************************)
(* render_status.                                                          *)
(***************************************************************************)
\* _rem_time(r): the sort key
RemTime(r) == IF IsInt(r.time) THEN r.time.n ELSE 0

\* r put into the sorted list s behind every element that does not sort
\* after it (list.sort is stable, also with reverse=True).
InsertSorted(s, r, desc) ==
    LET before(x) == IF desc THEN RemTime(x) >= RemTime(r) ELSE RemTime(x) <= RemTime(r)
        n == Cardinality({i \in DOMAIN s : before(s[i])})
    IN SubSeq(s, 1, n) \o <<r>> \o SubSeq(s, n + 1, Len(s))

RECURSIVE SortLoop(_, _, _)
\* list.sort(key=_rem_time, reverse=desc)
SortLoop(rs, acc, desc) ==
    IF rs = <<>> THEN acc
    ELSE SortLoop(Tail(rs), InsertSorted(acc, Head(rs), desc), desc)

IsIncomplete(r) == ~Truthy(r.complete_ts)
IsComplete(r) == Truthy(r.complete_ts)

\* Incomplete without the sort: the order of the response.
IncompleteUnsorted(reminders) == SelectSeq(reminders, IsIncomplete)

\* The To do list in display order.
Incomplete(reminders) == SortLoop(SelectSeq(reminders, IsIncomplete), <<>>, FALSE)

\* The Completed list in display order.
Complete(reminders) == SortLoop(SelectSeq(reminders, IsComplete), <<>>, TRUE)

\* The reminders of the To do list that get a checkbox.
HasCheckbox(r) == IsStr(r.id) /\ r.id.s # ""

\* CheckboxIds hiding the reminders whose completion was tried and failed.
CheckboxIdsSoftComplete(reminders) ==
    LET notTried(r) == HasCheckbox(r) /\ r.id.s \notin view.failed
        shown == SelectSeq(Incomplete(reminders), notTried)
    IN [i \in DOMAIN shown |-> shown[i].id.s]

\* The ids of the checkboxes shown, in order.
CheckboxIds(reminders) ==
    LET shown == SelectSeq(Incomplete(reminders), HasCheckbox)
    IN [i \in DOMAIN shown |-> shown[i].id.s]

\* The titles of the Completed section, in order.
CompletedTitles(reminders) ==
    LET done == Complete(reminders)
    IN [i \in DOMAIN done |-> PyStrOf(PyOr(done[i].text, PyStr("Reminder")))]

RECURSIVE JoinLines(_)
\* "\n".join(lines)
JoinLines(lines) ==
    IF lines = <<>> THEN ""
    ELSE IF Len(lines) = 1 THEN lines[1]
    ELSE lines[1] \o "\n" \o JoinLines(Tail(lines))

RECURSIVE MarkLoopStopAtFailure(_, _, _)
\* MarkLoop leaving the loop at the first call that fails.
MarkLoopStopAtFailure(ids, outs, acc) ==
    IF ids = <<>> THEN acc
    ELSE LET rid == Head(ids)
             out == Head(outs)
             res == CompleteSlackReminder(out)
             step == [rem |-> RemoteAfterComplete(acc.rem, rid, out),
                      calls |-> Append(acc.calls, Call("complete", "mark", rid, out)),
                      errors |-> IF ~res[1] /\ res[2] # NoErr
                                 THEN Append(acc.errors, rid \o ": " \o res[2])
                                 ELSE acc.errors,
                      popped |-> acc.popped \cup {rid},
                      ok |-> IF res[1] THEN acc.ok \cup {rid} ELSE acc.ok,
                      failed |-> IF res[1] THEN acc.failed ELSE acc.failed \cup {rid}]
         IN IF res[1] THEN MarkLoopStopAtFailure(Tail(ids), Tail(outs), step) ELSE step

RECURSIVE MarkLoop(_, _, _)
\* The loop over selected_ids of the Mark selected as completed button; outs[i]
\* is what the call for the i-th id left does.  acc is [rem, calls, errors,
\* popped, ok, failed].
MarkLoop(ids, outs, acc) ==
    IF ids = <<>> THEN acc
    ELSE LET rid == Head(ids)
             out == Head(outs)
             res == CompleteSlackReminder(out)
         IN MarkLoop(Tail(ids), Tail(outs),
                [rem |-> RemoteAfterComplete(acc.rem, rid, out),
                 calls |-> Append(acc.calls, Call("complete", "mark", rid, out)),
                 errors |-> IF ~res[1] /\ res[2] # NoErr
                            THEN Append(acc.errors, rid \o ": " \o res[2])
                            ELSE acc.errors,
                 popped |-> acc.popped \cup {rid},
                 ok |-> IF res[1] THEN acc.ok \cup {rid} ELSE acc.ok,
                 failed |-> IF res[1] THEN acc.failed ELSE acc.failed \cup {rid}])

\* One run of the script on the Status page.  act is the interaction that
\* started it: "nav", "rerun", "type" (typed is the new field content),
\* "toggle" (the checkbox of rid), "mark" or "refresh" (the buttons).  o1 is
\* what reminders.list does, outs what the reminders.complete calls do.
RenderStatus(act, typed, rid, o1, outs) ==
    LET widget == IF act = "type" THEN Present(typed)
                  ELSE IF status_slack_token.has THEN status_slack_token
                  ELSE Present(StrOr(IF slack_token.has THEN slack_token.val ELSE "",
                                     GetSlackUserToken))
        token == widget.val
        got == FetchSlackReminders(remote, o1)
        listed == token # "" /\ got[2] = NoErr
                  /\ ~(Incomplete(got[1]) = <<>> /\ Complete(got[1]) = <<>>)
        flags == IF act = "toggle"
                 THEN (status_done \ {rid}) \cup ({rid} \ status_done)
                 ELSE status_done
        boxes == IF listed THEN CheckboxIds(got[1]) ELSE <<>>
        checked(x) == x \in flags
        selected_ids == SelectSeq(boxes, checked)
        marked == listed /\ act = "mark"
        loop == IF marked
                THEN MarkLoop(selected_ids, outs,
                        [rem |-> remote, calls |-> <<>>, errors |-> <<>>,
                         popped |-> {}, ok |-> {}, failed |-> {}])
                ELSE [rem |-> remote, calls |-> <<>>, errors |-> <<>>,
                      popped |-> {}, ok |-> {}, failed |-> {}]
        rerun == listed /\ act \in {"mark", "refresh"}
        msgs == IF token = "" THEN <<Msg("info", PromptStatus)>>
                ELSE IF got[2] # NoErr THEN <<Msg("error", got[2])>>
                ELSE IF ~listed THEN <<Msg("info", "No reminders found in Slack.")>>
                ELSE IF loop.errors # <<>> THEN <<Msg("error", JoinLines(loop.errors))>>
                ELSE <<>>
    IN
    \* A call that is not made has no outcome to choose.
    /\ token = "" => o1 = "ok"
    /\ \A i \in DOMAIN outs : (~marked \/ i > Len(selected_ids)) => outs[i] = "ok"
    /\ page' = "status"
    /\ status_slack_token' = widget
    /\ slack_token' = Present(token)
    /\ remote' = loop.rem
    \* A checkbox that is not rendered loses its state; the loop pops the rest.
    /\ status_done' = (flags \cap Range(boxes)) \ loop.popped
    /\ rerun_requested' = rerun
    /\ completed_ok' = completed_ok \cup loop.ok
    \* Streamlit drops the state of the widgets a run does not render.
    /\ cal_token_input' = Absent
    /\ slack_auto_refresh' = FALSE
    /\ view' = [BlankView EXCEPT
                    !.page = "status", !.act = act, !.token = token,
                    !.cache_before = slack_events,
                    !.calls = (IF token # "" THEN <<Call("list", "status", token, o1)>> ELSE <<>>)
                              \o loop.calls,
                    !.msgs = msgs,
                    !.todo = boxes,
                    !.completed = IF listed /\ ~rerun THEN CompletedTitles(got[1]) ELSE <<>>,
                    !.selected = selected_ids,
                    !.marked = marked,
                    !.failed = loop.failed,
                    !.prev_failed = view.failed,
                    !.cancelled = Cancelled(FALSE, act),
                    !.entered = token]
    /\ UNCHANGED <<secrets_token, env_token, slack_events, nz_in, nz_out, utilVars>>

(***************************************************************************)
(* The other pages: nothing of the reminder state is read or written.      *)
(***************************************************************************)
RenderHome(act) ==
    /\ page' = "home"
    /\ rerun_requested' = FALSE
    \* Streamlit drops the state of the widgets a run does not render.
    /\ cal_token_input' = Absent
    /\ slack_auto_refresh' = FALSE
    /\ status_slack_token' = Absent
    /\ status_done' = {}
    /\ view' = [BlankView EXCEPT !.page = "home", !.act = act,
                                 !.cache_before = slack_events,
                                 !.prev_failed = view.failed,
                                 !.cancelled = Cancelled(FALSE, act),
                                 !.entered = view.entered]
    /\ UNCHANGED <<secrets_token, env_token, remote, slack_token, slack_events,
                   completed_ok, nz_in, nz_out, utilVars>>

(***************************************************************************)
(* The session: its start and the interactions that start a render cycle.  *)
(***************************************************************************)
\* The i-th reminder Slack holds: its id and text are fixed, the odd ones
\* have a time (a later one is due sooner), and it is complete or not.
ReminderAt(i, done) ==
    [isdict |-> TRUE,
     id |-> PyStr("R" \o IntToStr(i)),
     text |-> PyStr("Task " \o IntToStr(i)),
     time |-> IF i % 2 = 1 THEN PyInt(60 - 10 * i) ELSE PyNone,
     complete_ts |-> IF done THEN PyInt(5) ELSE PyNone]

\* The reminder lists Slack may hold when the session starts.
RemoteChoices ==
    UNION {
        {[i \in 1..n |-> ReminderAt(i, f[i])] : f \in [1..n -> BOOLEAN]}
        : n \in 0..MaxReminders}

\* The sync utility before it has run.
ProcBlank ==
    [done |-> FALSE, out |-> "ok", called |-> FALSE, exit |-> 0, stderr |-> "",
     stdout |-> "", file_before |-> NoList]

\* REPO_DIR with no file in it.
NoFiles == [n \in {} |-> <<>>]

NzBlank ==
    [done |-> FALSE, out |-> "ok", err |-> NoErr, parsed |-> <<>>, events |-> <<>>,
     todo |-> <<>>, completed |-> <<>>]

\* What each reminders.complete call of a cycle does.
OutcomeLists == [1..MaxReminders -> Outcomes]

AllOk == [i \in 1..MaxReminders |-> "ok"]

\* The session after main() has run once: init_state() chose the home page.
Init ==
    /\ secrets_token \in {"", "xoxp-secret"}
    /\ env_token \in {"", "xoxp-env"}
    /\ remote \in RemoteChoices
    /\ page = "home"
    /\ slack_token = Absent
    /\ slack_events = NoList
    /\ slack_auto_refresh = FALSE
    /\ cal_token_input = Absent
    /\ status_slack_token = Absent
    /\ status_done = {}
    /\ rerun_requested = FALSE
    /\ view = BlankView
    /\ completed_ok = {}
    /\ nz_in = <<>>
    /\ nz_out = NzBlank
    /\ events_file = NoList
    /\ proc = ProcBlank
    /\ repository = NoFiles
    /\ clock = 0
    /\ saves = <<>>

\* set_page("home") from the sidebar or a Back button, then the run.
GoHome ==
    /\ ~rerun_requested
    /\ RenderHome("nav")

\* set_page("status"), then the run.
GoStatus ==
    /\ ~rerun_requested
    /\ \E o1 \in Outcomes : RenderStatus("nav", "", "", o1, AllOk)

\* set_page("calendar") from the Calendar tile of the Home page, then the run.
GoCalendar ==
    /\ ~rerun_requested
    /\ page = "home"
    /\ \E o2 \in Outcomes : RenderCalendar("nav", "", "ok", o2)

\* The user edits the token field of the Calendar page.
CalendarType ==
    /\ ~rerun_requested
    /\ page = "calendar"
    /\ \E t \in TypedTokens, o2 \in Outcomes : RenderCalendar("type", t, "ok", o2)

\* The user ticks or unticks Auto-refresh Slack reminders.
CalendarToggleAuto ==
    /\ ~rerun_requested
    /\ page = "calendar"
    /\ \E o2 \in Outcomes : RenderCalendar("toggle", "", "ok", o2)

\* The user presses Sync from Slack.
CalendarSync ==
    /\ ~rerun_requested
    /\ page = "calendar"
    /\ \E o1, o2 \in Outcomes : RenderCalendar("sync", "", o1, o2)

\* The Calendar page runs again with no change of its inputs: the
\* st_autorefresh timer fires, or the calendar component reports a click.
\* The refresh interval sets only the period of the timer, and time is not
\* part of the state.
CalendarRerun ==
    /\ ~rerun_requested
    /\ page = "calendar"
    /\ \E o2 \in Outcomes : RenderCalendar("rerun", "", "ok", o2)

\* The user edits the token field of the Status page.
StatusType ==
    /\ ~rerun_requested
    /\ page = "status"
    /\ \E t \in TypedTokens, o1 \in Outcomes : RenderStatus("type", t, "", o1, AllOk)

\* The user ticks or unticks the checkbox of a reminder on the screen.
StatusToggle ==
    /\ ~rerun_requested
    /\ page = "status"
    /\ \E rid \in Range(view.todo), o1 \in Outcomes :
            RenderStatus("toggle", "", rid, o1, AllOk)

\* The user presses Mark selected as completed, enabled while a checkbox of
\* the screen is ticked.
StatusMark ==
    /\ ~rerun_requested
    /\ page = "status"
    /\ view.selected # <<>>
    /\ \E o1 \in Outcomes, outs \in OutcomeLists :
            RenderStatus("mark", "", "", o1, outs)

\* The user presses Refresh, shown below the To do list.
StatusRefresh ==
    /\ ~rerun_requested
    /\ page = "status"
    /\ view.todo # <<>> \/ view.completed # <<>>
    /\ \E o1 \in Outcomes : RenderStatus("refresh", "", "", o1, AllOk)

\* st.rerun(): the script runs again at once, with no interaction.
Rerun ==
    /\ rerun_requested
    /\ page = "status"
    /\ \E o1 \in Outcomes : RenderStatus("rerun", "", "", o1, AllOk)

Next ==
    \/ GoHome
    \/ GoStatus
    \/ GoCalendar
    \/ CalendarType
    \/ CalendarToggleAuto
    \/ CalendarSync
    \/ CalendarRerun
    \/ StatusType
    \/ StatusToggle
    \/ StatusMark
    \/ StatusRefresh
    \/ Rerun

Spec == Init /\ [][Next]_vars

(***************************************************************************)
(* The normalisation on its own: _fetch_slack_reminders_as_events and the  *)
(* lists of render_status applied to any response of reminders.list.       *)
(***************************************************************************)
\* An item of the response that is no dict (it has no fields).
NonDict ==
    [isdict |-> FALSE, id |-> PyNone, text |-> PyNone, time |-> PyNone,
     complete_ts |-> PyNone]

RawDict(i, text, time, complete_ts) ==
    [isdict |-> TRUE, id |-> PyStr("R" \o IntToStr(i)), text |-> text, time |-> time,
     complete_ts |-> complete_ts]

\* The items the i-th place of a response may hold: every time (absent, not
\* an integer, 0, two times of day) with every complete_ts (absent, 0, set),
\* and every text (absent, blank, not a string) active or complete.
RawItems(i) ==
    {NonDict}
    \cup {RawDict(i, PyStr("Pay rent"), time, cts) :
            time \in {PyNone, PyStr("soon"), PyInt(0), PyInt(10), PyInt(20)},
            cts \in {PyNone, PyInt(0), PyInt(5)}}
    \cup {RawDict(i, text, PyInt(10), cts) :
            text \in {PyNone, PyStr(""), PyInt(7)},
            cts \in {PyNone, PyInt(5)}}

\* The responses of reminders.list given to the normalisation alone.
RawResponses ==
    UNION {
        {r \in [1..n -> UNION {RawItems(i) : i \in 1..n}] :
            \A i \in 1..n : r[i] \in RawItems(i)}
        : n \in 0..NormMaxLen}

InitNorm ==
    /\ secrets_token = ""
    /\ env_token = "xoxp-env"
    /\ remote = <<>>
    /\ page = "home"
    /\ slack_token = Absent
    /\ slack_events = NoList
    /\ slack_auto_refresh = FALSE
    /\ cal_token_input = Absent
    /\ status_slack_token = Absent
    /\ status_done = {}
    /\ rerun_requested = FALSE
    /\ view = BlankView
    /\ completed_ok = {}
    /\ nz_in \in RawResponses
    /\ nz_out = NzBlank
    /\ events_file = NoList
    /\ proc = ProcBlank
    /\ repository = NoFiles
    /\ clock = 0
    /\ saves = <<>>

\* One call of _fetch_slack_reminders_as_events, and of the lists of
\* render_status on the same response.
NormFetch ==
    /\ ~nz_out.done
    /\ \E out \in Outcomes :
        LET got == FetchSlackRemindersAsEvents(nz_in, out)
            parsed == FetchSlackReminders(nz_in, out)[1]
        IN nz_out' = [done |-> TRUE, out |-> out, err |-> got[2], parsed |-> parsed,
                      events |-> got[1],
                      todo |-> Incomplete(parsed),
                      completed |-> Complete(parsed)]
    /\ UNCHANGED <<secrets_token, env_token, remote, page, slack_token, slack_events,
                   slack_auto_refresh, cal_token_input, status_slack_token, status_done,
                   rerun_requested, view, completed_ok, nz_in, utilVars>>

NextNorm == NormFetch

SpecNorm == InitNorm /\ [][NextNorm]_vars

(***************************************************************************)
(* The standalone sync utility (sync_slack_reminders.py): one run of main() *)
(* on the environment's token and any response of reminders.list.  A file  *)
(* is the list of events that json.dumps wrote into it.                    *)
(***************************************************************************)
\* One event of the utility: the title is the text itself, or "Reminder".
SyncEventOf(r) ==
    [id |-> r.id,
     title |-> PyOr(r.text, PyStr("Reminder")),
     start |-> TsToIsoLocal(r.time.n),
     allDay |-> FALSE]

RECURSIVE SyncEventsLoop(_, _)
\* The loop of main() over the reminders of the response.
SyncEventsLoop(rs, events) ==
    IF rs = <<>> THEN events
    ELSE LET r == Head(rs) IN
         IF ~IsDict(r) THEN SyncEventsLoop(Tail(rs), events)
         ELSE IF Truthy(r.complete_ts) THEN SyncEventsLoop(Tail(rs), events)
         ELSE IF ~IsInt(r.time) THEN SyncEventsLoop(Tail(rs), events)
         ELSE SyncEventsLoop(Tail(rs), Append(events, SyncEventOf(r)))

MissingToken == "Missing SLACK_USER_TOKEN environment variable"

\* What a process that ends in SystemExit(msg) or in an uncaught exception
\* leaves: exit status 1 and the text on stderr.
Died(called, out, text, file) ==
    [done |-> TRUE, out |-> out, called |-> called, exit |-> 1, stderr |-> text,
     stdout |-> "", file_before |-> file, file |-> file]

\* SyncRun writing the events it has, none, before it exits on a failed call.
SyncRunWriteOnFailure(token, resp, out, file) ==
    CASE token = "" -> Died(FALSE, out, MissingToken, file)
      [] token # "" /\ out = "api" ->
            [Died(TRUE, out, "Slack API error: invalid_auth", file)
                EXCEPT !.file = ListOf(<<>>)]
      [] token # "" /\ out = "exc" ->
            [Died(TRUE, out, "Traceback (most recent call last): TimeoutError: timeout",
                  file) EXCEPT !.file = ListOf(<<>>)]
      [] OTHER ->
            LET events == SyncEventsLoop(resp, <<>>) IN
            [done |-> TRUE, out |-> out, called |-> TRUE, exit |-> 0, stderr |-> "",
             stdout |-> "Wrote " \o IntToStr(Len(events)) \o " reminder(s) to reminders.json",
             file_before |-> file, file |-> ListOf(events)]

\* main(): the run of the utility with the environment's token, on the
\* response resp when the call succeeds, and the events file it leaves.
SyncRun(token, resp, out, file) ==
    CASE token = "" -> Died(FALSE, out, MissingToken, file)
      [] token # "" /\ out = "api" ->
            Died(TRUE, out, "Slack API error: invalid_auth", file)
      [] token # "" /\ out = "exc" ->
            Died(TRUE, out, "Traceback (most recent call last): TimeoutError: timeout",
                 file)
      [] OTHER ->
            LET events == SyncEventsLoop(resp, <<>>) IN
            [done |-> TRUE, out |-> out, called |-> TRUE, exit |-> 0, stderr |-> "",
             stdout |-> "Wrote " \o IntToStr(Len(events)) \o " reminder(s) to reminders.json",
             file_before |-> file, file |-> ListOf(events)]

\* The events an earlier run left in reminders.json.
OldEvents ==
    <<[id |-> PyStr("R0"), title |-> PyStr("Old"), start |-> TsToIsoLocal(0),
       allDay |-> FALSE]>>

InitSync ==
    /\ secrets_token = ""
    /\ env_token \in {"", "xoxp-env"}
    /\ remote = <<>>
    /\ page = "home"
    /\ slack_token = Absent
    /\ slack_events = NoList
    /\ slack_auto_refresh = FALSE
    /\ cal_token_input = Absent
    /\ status_slack_token = Absent
    /\ status_done = {}
    /\ rerun_requested = FALSE
    /\ view = BlankView
    /\ completed_ok = {}
    /\ nz_in \in RawResponses
    /\ nz_out = NzBlank
    /\ events_file \in {NoList, ListOf(OldEvents)}
    /\ proc = ProcBlank
    /\ repository = NoFiles
    /\ clock = 0
    /\ saves = <<>>

\* python sync_slack_reminders.py
SyncMain(out) ==
    /\ ~proc.done
    \* A call that is not made has no outcome to choose.
    /\ env_token = "" => out = "ok"
    /\ LET run == SyncRun(env_token, nz_in, out, events_file) IN
        /\ proc' = [done |-> run.done, out |-> run.out, called |-> run.called,
                    exit |-> run.exit, stderr |-> run.stderr, stdout |-> run.stdout,
                    file_before |-> run.file_before]
        /\ events_file' = run.file
    /\ UNCHANGED <<secrets_token, env_token, remote, page, slack_token, slack_events,
                   slack_auto_refresh, cal_token_input, status_slack_token, status_done,
                   rerun_requested, view, completed_ok, nz_in, nz_out, repository,
                   clock, saves>>

NextSync == \E out \in Outcomes : SyncMain(out)

SpecSync == InitSync /\ [][NextSync]_vars

(***************************************************************************)
(* The notes repository: _safe_filename and save_summary_to_repository.    *)
(* A text is the sequence of its pieces: the characters of a title or a    *)
(* body one by one, the fixed texts of the header each as one piece.       *)
(***************************************************************************)
\* str.isalnum() on the characters of the titles
IsAlnum(ch) == ch \in {"a", "b", "x", "y", "7"}

\* The characters str.strip() and str.split() take as whitespace.
Whitespace == {" ", "\n", "\t"}

RECURSIVE LStrip(_)
LStrip(s) == IF s # <<>> /\ Head(s) \in Whitespace THEN LStrip(Tail(s)) ELSE s

RECURSIVE RStrip(_)
RStrip(s) ==
    IF s # <<>> /\ s[Len(s)] \in Whitespace THEN RStrip(SubSeq(s, 1, Len(s) - 1)) ELSE s

\* s.strip()
Strip(s) == RStrip(LStrip(s))

RECURSIVE SplitWords(_, _, _)
\* s.split(): the words between runs of whitespace
SplitWords(s, cur, acc) ==
    LET closed == IF cur = <<>> THEN acc ELSE Append(acc, cur) IN
    IF s = <<>> THEN closed
    ELSE IF Head(s) \in Whitespace THEN SplitWords(Tail(s), <<>>, closed)
    ELSE SplitWords(Tail(s), Append(cur, Head(s)), acc)

RECURSIVE JoinSeq(_, _)
\* sep.join(parts)
JoinSeq(parts, sep) ==
    IF parts = <<>> THEN <<>>
    ELSE IF Len(parts) = 1 THEN parts[1]
    ELSE parts[1] \o sep \o JoinSeq(Tail(parts), sep)

RECURSIVE Str(_)
\* The text of a sequence of pieces, as one string.
Str(s) == IF s = <<>> THEN "" ELSE Head(s) \o Str(Tail(s))

\* _safe_filename(name)
SafeFilename(name) ==
    LET keep(ch) == IsAlnum(ch) \/ ch \in {"-", "_", " "}
        cleaned == Strip(SelectSeq(name, keep))
        joined == JoinSeq(SplitWords(cleaned, <<>>, <<>>), <<"_">>)
    IN IF joined = <<>> THEN <<"summary">> ELSE joined

\* now.strftime("%Y%m%d_%H%M%S") and now.isoformat(timespec="seconds"), for a
\* time of the first minute of the epoch.
Stamp(c) == "19700101_0000" \o TwoDigits(c)
IsoSeconds(c) == "1970-01-01T00:00:" \o TwoDigits(c)

\* The name of the file of a note.
FileName(title, c) == Stamp(c) \o "_" \o Str(SafeFilename(title)) \o ".md"

\* The header lines of a note.
Header(title, source_type, source_name, c) ==
    << <<"# ">> \o title,
       <<>>,
       <<"- Created: " \o IsoSeconds(c)>>,
       <<"- Source type: " \o source_type>>,
       <<"- Source name: " \o StrOr(source_name, "N/A")>>,
       <<>>,
       <<"---">>,
       <<>> >>

\* FileContent writing the body as it was given.
FileContentKeepWhitespace(title, summary, source_type, source_name, c) ==
    JoinSeq(Header(title, source_type, source_name, c), <<"\n">>)
        \o summary \o <<"\n">>

\* The text save_summary_to_repository writes.
FileContent(title, summary, source_type, source_name, c) ==
    JoinSeq(Header(title, source_type, source_name, c), <<"\n">>)
        \o Strip(summary) \o <<"\n">>

\* The titles saved: plain, with spaces, with nothing the file name keeps,
\* and with a line break.
Titles ==
    { <<"a">>, <<" ", "a", " ", "b">>, <<"/">>, <<"a", "\n", "b">> }

\* The bodies saved: with leading and with trailing whitespace, of two lines
\* with none, and empty.
Bodies ==
    { <<" ", "x">>, <<"x", "\n">>, <<"x", "\n", "y">>, <<>> }

\* source_name: None ("") or the name of the upload
SourceNames == {"", "talk.mp3"}

InitRepo ==
    /\ secrets_token = ""
    /\ env_token = ""
    /\ remote = <<>>
    /\ page = "home"
    /\ slack_token = Absent
    /\ slack_events = NoList
    /\ slack_auto_refresh = FALSE
    /\ cal_token_input = Absent
    /\ status_slack_token = Absent
    /\ status_done = {}
    /\ rerun_requested = FALSE
    /\ view = BlankView
    /\ completed_ok = {}
    /\ nz_in = <<>>
    /\ nz_out = NzBlank
    /\ events_file = NoList
    /\ proc = ProcBlank
    /\ repository = NoFiles
    /\ clock = 0
    /\ saves = <<>>

\* save_summary_to_repository(title, summary, source_type, source_name)
SaveSummaryToRepository(title, summary, source_name) ==
    /\ Len(saves) < MaxSaves
    /\ LET fname == FileName(title, clock)
           content == FileContent(title, summary, "Audio", source_name, clock)
       IN /\ repository' = [n \in DOMAIN repository \cup {fname} |->
                                IF n = fname THEN content ELSE repository[n]]
          /\ saves' = Append(saves, [title |-> title, summary |-> summary,
                                     at |-> clock, path |-> fname,
                                     content |-> content])
    /\ UNCHANGED <<secrets_token, env_token, remote, page, slack_token, slack_events,
                   slack_auto_refresh, cal_token_input, status_slack_token, status_done,
                   rerun_requested, view, completed_ok, nz_in, nz_out, events_file,
                   proc, clock>>

\* A second passes.
Tick ==
    /\ clock < MaxClock
    /\ clock' = clock + 1
    /\ UNCHANGED <<secrets_token, env_token, remote, page, slack_token, slack_events,
                   slack_auto_refresh, cal_token_input, status_slack_token, status_done,
                   rerun_requested, view, completed_ok, nz_in, nz_out, events_file,
                   proc, repository, saves>>

NextRepo ==
    \/ \E title \in Titles, summary \in Bodies, source_name \in SourceNames :
            SaveSummaryToRepository(title, summary, source_name)
    \/ Tick

SpecRepo == InitRepo /\ [][NextRepo]_vars

(***************************************************************************)
(* Properties.                                                             *)
(***************************************************************************)
IsCompleteCall(c) == c.op = "complete"
IsFailedCall(c) == c.out # "ok"
IsDisplayCall(c) == c.site = "display"
IsErrorMsg(m) == m.kind = "error"

\* The messages reminders.list and reminders.complete fail with.
FetchErrorText(out) ==
    IF out = "api" THEN "Slack API error: invalid_auth"
    ELSE "Failed to fetch Slack reminders: timeout"

CompleteErrorText(out) ==
    IF out = "api" THEN "Slack API error: missing_scope"
    ELSE "Failed to complete reminder: timeout"

\* What Slack holds, normalised: active reminders with an integer time.
RemoteEvents == EventsLoop(SelectSeq(remote, IsDict), <<>>)

\* C1: in a Calendar render cycle with auto-refresh off, Slack is called only
\* if the session held no cached event list before the cycle or Sync from Slack
\* was pressed in it; with a cached list and no Sync, the cached list is what
\* calendar() gets and no call is made.
C1_CachePreferred ==
    (view.page = "calendar" /\ ~view.auto) =>
        /\ view.calls # <<>> => (~view.cache_before.has \/ view.act = "sync")
        /\ (view.cache_before.has /\ view.act # "sync") =>
                /\ view.calls = <<>>
                /\ view.calendar_called
                /\ view.events = view.cache_before.list

\* A Calendar cycle with auto-refresh off that shows a non-empty cached list
\* without calling Slack, although a token is there.
C1_Witness ==
    /\ view.page = "calendar" /\ ~view.auto /\ view.act # "sync"
    /\ view.token # ""
    /\ view.cache_before.has /\ view.cache_before.list # <<>>
    /\ view.events = view.cache_before.list
    /\ view.calls = <<>>

\* C2 as stated: in a Calendar render cycle with auto-refresh on and a token,
\* a fetch is made and the cached list is overwritten unconditionally: after
\* the cycle the cache is the outcome of that fetch (the events handed to the
\* calendar, which are none when the fetch failed).
C2_OverwrittenUnconditionally ==
    (view.page = "calendar" /\ view.auto /\ view.token # "") =>
        /\ Len(SelectSeq(view.calls, IsDisplayCall)) = 1
        /\ slack_events = ListOf(view.events)

\* C2 amended: in a Calendar render cycle with auto-refresh on and a token,
\* exactly one display fetch is made; if it succeeds the cache is overwritten
\* with its events (what Slack holds, normalised) and these are shown; if it
\* fails nothing is shown and the fetch leaves the cache alone: it is as it was
\* before the cycle, or as a successful Sync of the same cycle set it.
C2_OverwrittenOnSuccess ==
    (view.page = "calendar" /\ view.auto /\ view.token # "") =>
        LET display == SelectSeq(view.calls, IsDisplayCall) IN
        /\ Len(display) = 1
        /\ display[1].out = "ok" =>
                /\ slack_events = ListOf(RemoteEvents)
                /\ view.events = RemoteEvents
        /\ display[1].out # "ok" =>
                /\ view.events = <<>>
                /\ IF view.act = "sync" /\ view.calls[1].out = "ok"
                   THEN slack_events = ListOf(RemoteEvents)
                   ELSE slack_events = view.cache_before

\* An auto-refresh cycle whose fetch failed and that left an older, non-empty
\* cached list in the session.
C2_Witness ==
    /\ view.page = "calendar" /\ view.auto /\ view.token # ""
    /\ Len(view.calls) = 1 /\ view.calls[1].out # "ok"
    /\ view.cache_before.has /\ view.cache_before.list # <<>>
    /\ slack_events = view.cache_before
    /\ view.events = <<>>

\* C3 as stated: when a fetch of a Calendar render cycle fails, its error
\* message is shown in that cycle, and if the session held no cached event list
\* before the cycle, calendar() gets the empty list.
C3_FailedFetchShowsNothing ==
    (view.page = "calendar" /\ \E i \in DOMAIN view.calls : IsFailedCall(view.calls[i])) =>
        /\ \A i \in DOMAIN view.calls :
                IsFailedCall(view.calls[i]) =>
                    \E j \in DOMAIN view.msgs :
                        /\ view.msgs[j].kind \in {"error", "warning"}
                        /\ view.msgs[j].text = FetchErrorText(view.calls[i].out)
        /\ ~view.cache_before.has => view.events = <<>>

\* C4 as stated: in a Calendar render cycle with no token from any source,
\* calendar() gets the empty list, the prompt is shown, no error is shown and
\* Slack is not called.
C4_NoTokenEmptyAndPrompt ==
    (view.page = "calendar" /\ view.token = "") =>
        /\ view.events = <<>>
        /\ \E j \in DOMAIN view.msgs : view.msgs[j] = Msg("info", PromptCalendar)
        /\ \A j \in DOMAIN view.msgs : ~IsErrorMsg(view.msgs[j])
        /\ view.calls = <<>>

\* C4 amended: in a Calendar render cycle with no token from any source,
\* Slack is not called; calendar() gets the cached event list of the session
\* if there is one and the empty list otherwise; the prompt is shown exactly
\* when that list is empty; and the one error that can be shown is the request
\* to set a token, shown exactly when Sync from Slack was pressed.
C4_NoTokenNoCall ==
    (view.page = "calendar" /\ view.token = "") =>
        /\ view.calls = <<>>
        /\ view.calendar_called
        /\ view.events = (IF view.cache_before.has THEN view.cache_before.list ELSE <<>>)
        /\ slack_events = view.cache_before
        /\ (\E j \in DOMAIN view.msgs : view.msgs[j] = Msg("info", PromptCalendar))
                <=> view.events = <<>>
        /\ \A j \in DOMAIN view.msgs :
                IsErrorMsg(view.msgs[j]) => view.msgs[j].text = SyncNoToken
        /\ (\E j \in DOMAIN view.msgs : IsErrorMsg(view.msgs[j])) <=> view.act = "sync"

\* A Calendar cycle with no token, after earlier cycles had one: the cached
\* events are shown and Slack is not called.
C4_Witness ==
    /\ view.page = "calendar" /\ view.token = ""
    /\ view.cache_before.has /\ view.events # <<>>
    /\ view.calls = <<>>

\* An item of a response that is to become an event: a dict that is not
\* complete and has an integer time.
Eligible(r) == r.isdict /\ r.time.t = "int" /\ ~Truthy(r.complete_ts)

\* The places of the eligible items of nz_in, and the j-th of them.
EligiblePlaces == {i \in DOMAIN nz_in : Eligible(nz_in[i])}
EligiblePlace(j) ==
    CHOOSE i \in EligiblePlaces : Cardinality({k \in EligiblePlaces : k <= i}) = j

\* C5: for every response of a successful fetch, the events of
\* _fetch_slack_reminders_as_events are at most as many as the items, none is
\* of an item with a truthy complete_ts or a time that is no integer, and
\* every other item has exactly one.
C5_EventsAreTheEligible ==
    (nz_out.done /\ nz_out.err = NoErr) =>
        /\ Len(nz_out.events) <= Len(nz_in)
        /\ \A i \in DOMAIN nz_in :
                Cardinality({j \in DOMAIN nz_out.events : nz_out.events[j].id = nz_in[i].id})
                    = IF Eligible(nz_in[i]) THEN 1 ELSE 0

\* A response of two dicts, one complete and one active with a time, of which
\* the active one alone became an event.
C5_Witness ==
    /\ nz_out.done /\ nz_out.err = NoErr
    /\ Len(nz_in) = 2
    /\ nz_in[1].isdict /\ nz_in[1].time.t = "int" /\ Truthy(nz_in[1].complete_ts)
    /\ Eligible(nz_in[2])
    /\ Len(nz_out.events) = 1 /\ nz_out.events[1].id = nz_in[2].id

\* C6: the events are in the order of their reminders in the response, and
\* each has the id of its reminder, its text as title (Reminder when the text
\* is blank or absent) and allDay false.
C6_OrderAndFields ==
    (nz_out.done /\ nz_out.err = NoErr) =>
        /\ Len(nz_out.events) = Cardinality(EligiblePlaces)
        /\ \A j \in DOMAIN nz_out.events :
            LET r == nz_in[EligiblePlace(j)]
                e == nz_out.events[j]
            IN /\ e.id = r.id
               /\ (r.text.t = "str" /\ r.text.s # "") => e.title = r.text.s
               /\ (r.text.t = "none" \/ r.text = PyStr("")) => e.title = "Reminder"
               /\ e.allDay = FALSE

\* Two events in the order of the response, the first with the placeholder
\* title and the second with its text.
C6_Witness ==
    /\ nz_out.done /\ nz_out.err = NoErr
    /\ Len(nz_out.events) = 2
    /\ nz_out.events[1].id = PyStr("R1") /\ nz_out.events[1].title = "Reminder"
    /\ nz_out.events[2].id = PyStr("R2") /\ nz_out.events[2].title = "Pay rent"

\* The error lines of the failed reminders.complete calls of a cycle, in order.
RECURSIVE FailedLines(_)
FailedLines(calls) ==
    IF calls = <<>> THEN <<>>
    ELSE IF IsCompleteCall(Head(calls)) /\ IsFailedCall(Head(calls))
         THEN <<Head(calls).arg \o ": " \o CompleteErrorText(Head(calls).out)>>
                \o FailedLines(Tail(calls))
         ELSE FailedLines(Tail(calls))

\* C7: when Mark selected as completed is pressed with the ids S selected,
\* reminders.complete is called exactly once for every id of S, whatever the
\* other calls did; the failures are shown as one error message of one line
\* per failed id; the flag status_done_<id> of every id of S is cleared,
\* failed or not; and a rerun is requested.
C7_AllProceed ==
    view.marked =>
        LET done == SelectSeq(view.calls, IsCompleteCall)
            errors == SelectSeq(view.msgs, IsErrorMsg)
        IN /\ Len(done) = Len(view.selected)
           /\ \A i \in DOMAIN done : done[i].arg = view.selected[i]
           /\ \A i, j \in DOMAIN view.selected :
                    view.selected[i] = view.selected[j] => i = j
           /\ view.failed = {done[i].arg : i \in {k \in DOMAIN done : IsFailedCall(done[k])}}
           /\ IF FailedLines(view.calls) = <<>> THEN errors = <<>>
              ELSE errors = <<Msg("error", JoinLines(FailedLines(view.calls)))>>
           /\ status_done \cap Range(view.selected) = {}
           /\ rerun_requested

\* Two ids selected, the call for the first failed and the call for the
\* second was made and succeeded.
C7_Witness ==
    /\ view.marked
    /\ Len(view.selected) = 2
    /\ Len(view.calls) = 3
    /\ view.calls[2].out # "ok" /\ view.calls[3].out = "ok"
    /\ view.failed = {view.selected[1]}
    /\ view.selected[2] \in completed_ok

\* C8 as stated: once reminders.complete succeeded for a reminder, no Calendar
\* render cycle hands calendar() an event of that reminder.
C8_CompletedNeverShown ==
    view.page = "calendar" =>
        \A j \in DOMAIN view.events : view.events[j].id.s \notin completed_ok

\* C9: a reminder whose reminders.complete call failed stays active at Slack,
\* and the next Status render cycle whose fetch succeeds lists it under To do.
C9_FailedStaysToDo ==
    /\ \A rid \in view.failed :
            \E i \in DOMAIN remote : remote[i].id = PyStr(rid) /\ IsIncomplete(remote[i])
    /\ (view.page = "status" /\ view.calls # <<>> /\ view.calls[1].out = "ok") =>
            view.prev_failed \subseteq Range(view.todo)
    /\ view.prev_failed # {} => view.page = "status"

\* The Status cycle after a failed completion: the reminder is listed again.
C9_Witness ==
    /\ view.page = "status" /\ view.act = "rerun"
    /\ view.prev_failed # {}
    /\ view.prev_failed \subseteq Range(view.todo)

\* C10 as stated: after a reminders.list or reminders.complete call failed,
\* the same call is not made again in the same render cycle.
C10_NoSecondCall ==
    \A i, j \in DOMAIN view.calls :
        (i < j /\ IsFailedCall(view.calls[i])) =>
            ~(view.calls[j].op = view.calls[i].op /\ view.calls[j].arg = view.calls[i].arg)

\* C11 as stated: once auto-refresh was unticked or the Calendar page was
\* left, no render cycle calls Slack until Sync from Slack is pressed or
\* auto-refresh is ticked again.
C11_NoFetchAfterCancel ==
    view.cancelled => view.calls = <<>>

\* C11 amended: once auto-refresh was unticked or the Calendar page was left,
\* and until Sync is pressed or auto-refresh ticked again, the Home page never
\* calls Slack and a Calendar cycle does not call it while the session holds a
\* cached event list, which is what calendar() gets; a Calendar cycle with a
\* token and no cached list fetches once, and so does every Status cycle with
\* a token.
C11_NoFetchWhileCached ==
    view.cancelled =>
        /\ view.page = "home" => view.calls = <<>>
        /\ (view.page = "calendar" /\ view.cache_before.has) =>
                /\ view.calls = <<>>
                /\ view.events = view.cache_before.list
        /\ (view.page = "calendar" /\ ~view.cache_before.has) =>
                IF view.token # ""
                THEN Len(view.calls) = 1 /\ view.calls[1].site = "display"
                ELSE view.calls = <<>>
        /\ (view.page = "status" /\ ~view.marked) =>
                IF view.token # ""
                THEN Len(view.calls) = 1 /\ view.calls[1].site = "status"
                ELSE view.calls = <<>>

\* Auto-refresh was on and is unticked: the Calendar page shows the cached
\* events and does not call Slack.
C11_Witness ==
    /\ view.cancelled
    /\ view.page = "calendar" /\ view.act = "toggle"
    /\ view.token # ""
    /\ view.cache_before.has /\ view.events # <<>>
    /\ view.calls = <<>>

\* The token typed into the Calendar page's field, "" when the field has its
\* default value.
TypedOnCalendar == IF cal_token_input.has THEN cal_token_input.val ELSE ""

\* C12 as stated: the token of a reminder-service call is the first non-empty
\* value among the secrets store, the environment variable and the typed
\* token, in this order.
C12_SecretsEnvTyped ==
    view.page = "calendar" =>
        \A i \in DOMAIN view.calls :
            view.calls[i].arg = StrOr(secrets_token, StrOr(env_token, TypedOnCalendar))

\* C12 amended: the token of every call of a Calendar render cycle is the
\* first non-empty value among the token typed into the page's field, the
\* secrets store and the environment variable, in this order.
C12_TypedSecretsEnv ==
    view.page = "calendar" =>
        \A i \in DOMAIN view.calls :
            view.calls[i].arg = StrOr(TypedOnCalendar, StrOr(secrets_token, env_token))

\* A Calendar cycle calls Slack with the typed token although secrets and the
\* environment both hold another one.
C12_Witness ==
    /\ view.page = "calendar"
    /\ secrets_token # "" /\ env_token # ""
    /\ view.calls # <<>>
    /\ view.calls[1].arg = "xoxp-typed"

\* C13 as stated: in the To do list a reminder with integer time t1 is before
\* one with t2 when t1 < t2, every reminder with no integer time is before all
\* timed ones, and the Completed list is in descending order of time.
C13_UntimedBeforeAllTimed ==
    nz_out.done =>
        /\ \A i, j \in DOMAIN nz_out.todo :
            LET a == nz_out.todo[i]
                b == nz_out.todo[j]
            IN /\ (IsInt(a.time) /\ IsInt(b.time) /\ a.time.n < b.time.n) => i < j
               /\ (~IsInt(a.time) /\ IsInt(b.time)) => i < j
        /\ \A i, j \in DOMAIN nz_out.completed :
            i < j => RemTime(nz_out.completed[i]) >= RemTime(nz_out.completed[j])

\* C13 amended: the To do list holds the active reminders, a reminder with
\* integer time t1 before one with t2 when t1 < t2 and every reminder with no
\* integer time before all reminders with a positive time; a reminder whose
\* time is the integer 0 has the key of the untimed ones and keeps its place
\* of the response among them. The Completed list is in descending order of
\* time.
C13_UntimedBeforePositive ==
    nz_out.done =>
        /\ Len(nz_out.todo) = Len(SelectSeq(nz_out.parsed, IsIncomplete))
        /\ \A i, j \in DOMAIN nz_out.todo :
            LET a == nz_out.todo[i]
                b == nz_out.todo[j]
            IN /\ (IsInt(a.time) /\ IsInt(b.time) /\ a.time.n < b.time.n) => i < j
               /\ (~IsInt(a.time) /\ IsInt(b.time) /\ b.time.n > 0) => i < j
               /\ (RemTime(a) = RemTime(b) /\ i < j) =>
                    \E k, l \in DOMAIN nz_out.parsed :
                        k < l /\ nz_out.parsed[k] = a /\ nz_out.parsed[l] = b
        /\ \A i, j \in DOMAIN nz_out.completed :
            i < j => RemTime(nz_out.completed[i]) >= RemTime(nz_out.completed[j])

\* Two active reminders, the later one of the response first: the untimed
\* one of the second place is listed before the one due at 20.
C13_Witness ==
    /\ nz_out.done /\ nz_out.err = NoErr
    /\ Len(nz_out.parsed) = 2
    /\ nz_out.parsed[1].time = PyInt(20) /\ nz_out.parsed[2].time = PyNone
    /\ Len(nz_out.todo) = 2
    /\ nz_out.todo[1] = nz_out.parsed[2] /\ nz_out.todo[2] = nz_out.parsed[1]

\* C14: a run of the sync utility with no token, or whose list call fails,
\* ends with a non-zero exit status and a message on stderr and leaves the
\* events file as it was, absent or with its old content; with no token the
\* call is not made; the file differs after a run only if the token was found
\* and the call succeeded.
C14_NoPartialOutput ==
    proc.done =>
        /\ (env_token = "" \/ proc.out # "ok") =>
                /\ proc.exit # 0
                /\ proc.stderr # ""
                /\ events_file = proc.file_before
        /\ env_token = "" => (~proc.called /\ proc.stderr = MissingToken)
        /\ (env_token # "" /\ proc.out = "ok") =>
                (proc.exit = 0 /\ events_file.has)
        /\ events_file # proc.file_before =>
                (env_token # "" /\ proc.called /\ proc.out = "ok")

\* The list call failed with a Slack error while reminders.json held the
\* events of an earlier run: the run exited with 1 and the file is as before.
C14_Witness ==
    /\ proc.done /\ proc.called /\ proc.out = "api"
    /\ proc.exit = 1 /\ proc.stderr = "Slack API error: invalid_auth"
    /\ proc.file_before = ListOf(OldEvents)
    /\ events_file = ListOf(OldEvents)

\* C15 as stated: two notes saved with the same title in the same second are
\* two files of the repository, and the first note's content is still there
\* after the second save.
C15_SameSecondDistinctFiles ==
    \A i, j \in DOMAIN saves :
        (i < j /\ saves[i].title = saves[j].title /\ saves[i].at = saves[j].at) =>
            /\ saves[i].path # saves[j].path
            /\ saves[i].path \in DOMAIN repository
            /\ repository[saves[i].path] = saves[i].content

\* Reading a note back.  The lines of a text start at its first piece and
\* behind every line break; a line ends before the next line break.
LineStarts(text) == {1} \cup {i + 1 : i \in {k \in DOMAIN text : text[k] = "\n"}}
LineEnd(text, st) ==
    LET breaks == {k \in DOMAIN text : k >= st /\ text[k] = "\n"}
    IN IF breaks = {} THEN Len(text)
       ELSE (CHOOSE k \in breaks : \A l \in breaks : k <= l) - 1
LineAt(text, st) == SubSeq(text, st, LineEnd(text, st))

\* The title of a note: its first line without the leading "# ".
TitleRead(text) == Tail(LineAt(text, 1))

\* The body of a note: the text behind the first line that reads ---, less
\* the line break that ends the file.
BodyRead(text) ==
    LET seps == {st \in LineStarts(text) : st <= Len(text) /\ Str(LineAt(text, st)) = "---"}
        sep == CHOOSE st \in seps : \A o \in seps : st <= o
    IN SubSeq(text, LineEnd(text, sep) + 2, Len(text) - 1)

\* C16 as stated: the file written for a title and a body reads back as
\* exactly that title and exactly that body, leading and trailing whitespace
\* of the body included.
C16_RoundTripExact ==
    \A i \in DOMAIN saves :
        /\ TitleRead(saves[i].content) = saves[i].title
        /\ BodyRead(saves[i].content) = saves[i].summary

\* C16 amended: the file written reads back as the title, when the title has
\* no line break, and as the body without its leading and trailing
\* whitespace.
C16_RoundTripStripped ==
    \A i \in DOMAIN saves :
        /\ (\A k \in DOMAIN saves[i].title : saves[i].title[k] # "\n") =>
                TitleRead(saves[i].content) = saves[i].title
        /\ BodyRead(saves[i].content) = Strip(saves[i].summary)

\* A note whose body began with a blank was saved and is in the repository:
\* it reads back as its title and as the body without the blank.
C16_Witness ==
    \E i \in DOMAIN saves :
        /\ saves[i].title = <<" ", "a", " ", "b">>
        /\ saves[i].summary = <<" ", "x">>
        /\ saves[i].path = "19700101_000000_a_b.md"
        /\ saves[i].path \in DOMAIN repository
        /\ TitleRead(repository[saves[i].path]) = saves[i].title
        /\ BodyRead(repository[saves[i].path]) = <<"x">>

\* C17: the token of the Status page's field is kept in the session, and the
\* next Calendar cycle after it uses that token.
C17_StatusTokenReused ==
    [][(view.entered # "" /\ view'.page = "calendar") =>
            /\ slack_token = Present(view.entered)
            /\ view'.token = view.entered]_vars

\* C18: when the fetch of an auto-refresh cycle fails, calendar() gets the
\* empty list and the error is shown as a warning, whatever the cached list
\* was before the cycle and whatever a Sync of the same cycle stored.
C18_FailedRefreshShowsNothing ==
    (view.page = "calendar" /\ view.branch = "auto") =>
        \A i \in DOMAIN view.calls :
            (IsDisplayCall(view.calls[i]) /\ IsFailedCall(view.calls[i])) =>
                /\ view.calendar_called
                /\ view.events = <<>>
                /\ \E k \in DOMAIN view.msgs :
                        view.msgs[k] = Msg("warning", FetchErrorText(view.calls[i].out))

\* The timer fired with auto-refresh on and a non-empty cached list, the
\* fetch failed: a warning and an empty calendar.
C18_Witness ==
    /\ view.page = "calendar" /\ view.act = "rerun" /\ view.branch = "auto"
    /\ view.cache_before.has /\ view.cache_before.list # <<>>
    /\ view.calls = <<Call("list", "display", view.token, "api")>>
    /\ view.msgs = <<Msg("warning", "Slack API error: invalid_auth")>>
    /\ view.events = <<>>

\* C19: the cached event list changes only in a Calendar cycle in which a
\* reminders.list call succeeded, and then to the normalised reminders Slack
\* holds; a cycle whose fetches all failed, and every cycle of the Status
\* page, leaves it as it was.
C19_CacheOnlyFromSuccessfulFetch ==
    [][slack_events' # slack_events =>
            /\ view'.page = "calendar"
            /\ \E i \in DOMAIN view'.calls :
                    view'.calls[i].op = "list" /\ ~IsFailedCall(view'.calls[i])
            /\ slack_events' = ListOf(RemoteEvents')]_vars

\* Sync from Slack failed over a non-empty cached list, which is still the
\* cached list and is what calendar() gets.
C19_Witness ==
    /\ view.page = "calendar" /\ view.act = "sync"
    /\ view.calls # <<>>
    /\ \A i \in DOMAIN view.calls : IsFailedCall(view.calls[i])
    /\ view.cache_before.has /\ view.cache_before.list # <<>>
    /\ slack_events = view.cache_before
    /\ view.events = view.cache_before.list

\* C20 as stated: for every response of reminders.list, the events the sync
\* utility writes are the events _fetch_slack_reminders_as_events returns for
\* it: as many, in the same order, with the same id, title, start and allDay.
C20_SameEventsAsTheApp ==
    (proc.done /\ proc.exit = 0) =>
        LET app == FetchSlackRemindersAsEvents(nz_in, "ok")[1]
            util == events_file.list
        IN /\ Len(util) = Len(app)
           /\ \A i \in DOMAIN util :
                /\ util[i].id = app[i].id
                /\ util[i].title = PyStr(app[i].title)
                /\ util[i].start = app[i].start
                /\ util[i].allDay = app[i].allDay

====
